---- MODULE Spec2Model ----
(***************************************************************************)
(* A model of ska_builder.py: metadata loading (get_meta), the package     *)
(* index (get_package_map, memoized with functools.cache), and the build   *)
(* loop (main, build_list_packages, build_package).                        *)
(*                                                                         *)
(* Python strings are modelled as tuples of one-character strings, so      *)
(* that sorting, globbing, splitting and joining are computed and not      *)
(* assumed.  A Path is the tuple of its components.                        *)
(***************************************************************************)
EXTENDS Integers, Sequences, FiniteSets, TLC

VARIABLES
    fs,             \* the metadata files on disk: path -> parsed description
    cache,          \* functools.cache of get_package_map: key -> index object
    scans,          \* number of directory scans performed so far
    calls,          \* history of get_package_map calls: arguments, the tree
                    \* at the time, the object returned, whether the body ran
    args,           \* the parsed command line (argparse namespace)
    pc,             \* position of the run: main, enter, loop, done (idle: no run)
    pkg_names,      \* the identifiers build_list_packages iterates over
    package_paths,  \* the index object returned by get_package_map
    idx,            \* position of the loop in pkg_names (1-based)
    failures,       \* the failures list of build_list_packages
    log,            \* what the loop printed per identifier: skip, build, failure
    last,           \* the most recent build_package call: steps run, exception,
                    \* and what its collaborators did (fault)
    staged,         \* src_dir/pkg_defs: staged directory name -> its state
    cloned,         \* the clone destinations that exist under src_dir
    environ,        \* os.environ["SKA_PKG_VERSION"]
    outcome,        \* how the run ended: returned, or the exception raised
    disk,           \* the text of the staged meta.yaml that is rewritten
    rw,             \* the call of overwrite_skare3_version in progress
    repo,           \* the call of clone_repo in progress and the clone it makes
    listed          \* the order in which the file system lists the tree

indexVars == << fs, cache, scans, calls >>
buildVars == << args, pc, pkg_names, package_paths, idx, failures, log, last,
                staged, cloned, environ, outcome >>
unitVars == << disk, rw, repo, listed >>
vars == << fs, cache, scans, calls, args, pc, pkg_names, package_paths, idx,
           failures, log, last, staged, cloned, environ, outcome,
           disk, rw, repo, listed >>

(***************************************************************************)
(* Bounds of the model.                                                    *)
(***************************************************************************)
MaxFiles == 3
MaxCalls == 3
MaxLen == 3
MaxLines == 2
MaxRwLines == 2
MaxTags == 3
MaxTime == 2

(***************************************************************************)
(* Strings.                                                                *)
(***************************************************************************)
\* The characters used by the model, in increasing code point order.
AsciiOrder ==
    << "\n", " ", "#", "*", "+", ",", "-", ".", "/", "3", ":", "?", "_",
       "a", "b", "c", "d", "e", "f", "g", "h", "k", "l", "m", "o", "p", "r",
       "s", "t", "v", "x", "y" >>

OrdOf ==
    [ c \in { AsciiOrder[i] : i \in 1..Len(AsciiOrder) } |->
        CHOOSE i \in 1..Len(AsciiOrder) : AsciiOrder[i] = c ]

Ord(c) == OrdOf[c]

Min(a, b) == IF a < b THEN a ELSE b

\* Python's str < str: lexicographic by code point.
StrLess(s, t) ==
    \E k \in 1..(Min(Len(s), Len(t)) + 1) :
        /\ \A j \in 1..(k - 1) : s[j] = t[j]
        /\ \/ k > Len(s) /\ k <= Len(t)
           \/ k <= Len(s) /\ k <= Len(t) /\ Ord(s[k]) < Ord(t[k])

\* pathlib's Path < Path: the lists of components compared lexicographically.
PathLess(p, q) ==
    \E k \in 1..(Min(Len(p), Len(q)) + 1) :
        /\ \A j \in 1..(k - 1) : p[j] = q[j]
        /\ \/ k > Len(p) /\ k <= Len(q)
           \/ k <= Len(p) /\ k <= Len(q) /\ StrLess(p[k], q[k])

Range(seq) == { seq[i] : i \in 1..Len(seq) }

Last(s) == s[Len(s)]

IsPrefix(p, q) == Len(p) <= Len(q) /\ SubSeq(q, 1, Len(p)) = p

\* str.split(sep) for a one-character separator.
RECURSIVE Split(_, _)
Split(s, sep) ==
    IF \A i \in 1..Len(s) : s[i] # sep
    THEN << s >>
    ELSE LET i == CHOOSE k \in 1..Len(s) :
                      s[k] = sep /\ \A j \in 1..(k - 1) : s[j] # sep
         IN  << SubSeq(s, 1, i - 1) >> \o Split(SubSeq(s, i + 1, Len(s)), sep)

\* sep.join(parts)
RECURSIVE Join(_, _)
Join(parts, sep) ==
    IF parts = << >> THEN << >>
    ELSE IF Len(parts) = 1 THEN parts[1]
    ELSE parts[1] \o sep \o Join(Tail(parts), sep)

\* seq[-2:]
LastTwo(seq) == IF Len(seq) <= 2 THEN seq ELSE SubSeq(seq, Len(seq) - 1, Len(seq))

\* sorted(set of paths)
RECURSIVE SortedPaths(_)
SortedPaths(S) ==
    IF S = {} THEN << >>
    ELSE LET m == CHOOSE p \in S : \A q \in S \ {p} : PathLess(p, q)
         IN  << m >> \o SortedPaths(S \ {m})

(***************************************************************************)
(* Optional values: None is the empty set, a present value v is {v}.       *)
(***************************************************************************)
None == {}
Some(v) == {v}
Val(o) == CHOOSE v \in o : TRUE

(***************************************************************************)
(* Metadata description files.  The templating/parsing collaborator is     *)
(* abstracted to its result: a description either fails to render/parse    *)
(* (loads = FALSE) or yields a document with package.name, about.home,     *)
(* source.path (written "{{ SKA_TOP_SRC_DIR }}/<src>" in the file), a       *)
(* noarch build option, and the raw text's version-injection marker.       *)
(***************************************************************************)
Doc(name, home, src, marker, noarch) ==
    [ loads |-> TRUE, name |-> name, home |-> home, src |-> src,
      marker |-> marker, noarch |-> noarch ]

Unparsable ==
    [ loads |-> FALSE, name |-> None, home |-> None, src |-> None,
      marker |-> FALSE, noarch |-> FALSE ]

\* jinja2.Template(...).render(**kwargs) followed by yaml.safe_load:
\* the source path placeholder is expanded with SKA_TOP_SRC_DIR.
Render(doc, kwargs) ==
    [ doc EXCEPT !.src = IF doc.src = None THEN None
                         ELSE Some(kwargs \o << "/" >> \o Val(doc.src)) ]

NoInfo ==
    [ meta_file |-> << >>, meta |-> Unparsable, has_home |-> FALSE,
      has_source |-> FALSE, requires_scm |-> FALSE, obj |-> << 0, << >> >> ]

\* get_meta without the check of lines 117-121 (marker without source/home).
GetMeta_NoScmCheck(path, doc, kwargs, obj) ==
    IF ~doc.loads
    THEN [ exc |-> "LoadError", info |-> NoInfo ]
    ELSE LET meta == Render(doc, kwargs)
             info == [ meta_file |-> path, meta |-> meta,
                       has_home |-> meta.home # None,
                       has_source |-> meta.src # None,
                       requires_scm |-> doc.marker, obj |-> obj ]
         IN  IF info.has_source /\ ~info.has_home
             THEN [ exc |-> "ValueError", info |-> NoInfo ]
             ELSE [ exc |-> "none", info |-> info ]

\* get_meta(path, **kwargs).  obj is the identity of the info dict created
\* by this call.  exc is "none" on success.
GetMeta(path, doc, kwargs, obj) ==
    IF ~doc.loads
    THEN [ exc |-> "LoadError", info |-> NoInfo ]
    ELSE LET meta == Render(doc, kwargs)
             has_home == meta.home # None
             has_source == meta.src # None
             requires_scm == doc.marker
             info == [ meta_file |-> path, meta |-> meta, has_home |-> has_home,
                       has_source |-> has_source, requires_scm |-> requires_scm,
                       obj |-> obj ]
         IN  IF has_source /\ ~has_home
             THEN [ exc |-> "ValueError", info |-> NoInfo ]
             ELSE IF requires_scm /\ ~(has_source /\ has_home)
             THEN [ exc |-> "ValueError", info |-> NoInfo ]
             ELSE [ exc |-> "none", info |-> info ]

(***************************************************************************)
(* get_package_map                                                         *)
(***************************************************************************)
MetaYaml == << "m", "e", "t", "a", ".", "y", "a", "m", "l" >>
MetaYml  == << "m", "e", "t", "a", ".", "y", "m", "l" >>

\* p.parent.name
ParentName(p) == IF Len(p) >= 2 THEN p[Len(p) - 1] ELSE << >>

\* set(pkg_dir.glob("**/meta.yaml")) | set(pkg_dir.glob("**/meta.yml"))
GlobMeta(files, pkg_dir) ==
    { p \in DOMAIN files :
        /\ Len(p) > Len(pkg_dir)
        /\ IsPrefix(pkg_dir, p)
        /\ Last(p) \in { MetaYaml, MetaYml } }

\* "/".join(home.split("/")[-2:])
HomeSuffix(home) == Join(LastTwo(Split(home, "/")), << "/" >>)

EmptyMap == [ k \in {} |-> NoInfo ]

\* The aliases of one loaded file (the keys of p_map).
PMapKeys(p, info) ==
    { ParentName(p), Val(info.meta.name) }
        \cup (IF info.meta.home # None THEN { HomeSuffix(Val(info.meta.home)) } ELSE {})

\* An update that keeps the entry of the first file declaring an alias.
Update_FirstWins(name_map, keys, info) ==
    [ k \in DOMAIN name_map \cup keys |->
        IF k \in DOMAIN name_map THEN name_map[k] ELSE info ]

\* name_map.update(p_map), p_map mapping every key to info.
Update(name_map, keys, info) ==
    [ k \in DOMAIN name_map \cup keys |-> IF k \in keys THEN info ELSE name_map[k] ]

\* The try body of one iteration: get_meta, then the aliases of p_map.
\* exc is the exception that leaves the try body, "none" if it completes.
LoadOne(p, doc, kwargs, scan) ==
    LET r == GetMeta(p, doc, kwargs, << scan, p >>)
    IN  IF r.exc # "none"
        THEN [ exc |-> r.exc, keys |-> {}, info |-> NoInfo ]
        ELSE IF r.info.meta.name = None     \* info["meta"]["package"]["name"]
        THEN [ exc |-> "KeyError", keys |-> {}, info |-> NoInfo ]
        ELSE [ exc |-> "none", keys |-> PMapKeys(p, r.info), info |-> r.info ]

\* An iteration that writes the directory alias into name_map before the
\* package name is looked up, so that a later KeyError leaves it behind.
LoadInto_PartialAlias(name_map, p, doc, kwargs, scan) ==
    LET r == GetMeta(p, doc, kwargs, << scan, p >>)
        t == LoadOne(p, doc, kwargs, scan)
    IN  IF t.exc = "none"
        THEN [ map |-> Update(name_map, t.keys, t.info), printed |-> << >>,
               propagates |-> "none" ]
        ELSE IF r.exc = "none"
        THEN [ map |-> Update(name_map, { ParentName(p) }, r.info),
               printed |-> << << p, t.exc >> >>, propagates |-> "none" ]
        ELSE [ map |-> name_map, printed |-> << << p, t.exc >> >>,
               propagates |-> "none" ]

\* One iteration of the loop: the try body and the except clause, which
\* prints the diagnostic and goes on (propagates is what leaves the loop).
LoadInto(name_map, p, doc, kwargs, scan) ==
    LET t == LoadOne(p, doc, kwargs, scan)
    IN  IF t.exc = "none"
        THEN [ map |-> Update(name_map, t.keys, t.info), printed |-> << >>,
               propagates |-> "none" ]
        ELSE [ map |-> name_map, printed |-> << << p, t.exc >> >>,
               propagates |-> "none" ]

RECURSIVE ScanLoop(_, _, _, _, _)
ScanLoop(pkgs, files, kwargs, scan, acc) ==
    IF pkgs = << >> \/ acc.propagates # "none" THEN acc
    ELSE LET r == LoadInto(acc.map, Head(pkgs), files[Head(pkgs)], kwargs, scan)
         IN  ScanLoop(Tail(pkgs), files, kwargs, scan,
                      [ map |-> r.map, printed |-> acc.printed \o r.printed,
                        propagates |-> r.propagates ])

\* The body of get_package_map, run as scan number `scan`: the index object
\* it returns (id is the identity of the dict), the "failed to load"
\* diagnostics it prints, and the exception it raises ("none": it returns).
BuildIndex(files, pkg_dir, kwargs, scan) ==
    LET r == ScanLoop(SortedPaths(GlobMeta(files, pkg_dir)), files, kwargs, scan,
                      [ map |-> EmptyMap, printed |-> << >>, propagates |-> "none" ])
    IN  [ id |-> scan, map |-> r.map, printed |-> r.printed, raised |-> r.propagates ]

\* A memoization keyed by the directory alone.
CacheKey_RootOnly(pkg_dir, kwargs) == << pkg_dir, << >> >>

\* The memoization key of functools.cache: the call's arguments.
CacheKey(pkg_dir, kwargs) == << pkg_dir, kwargs >>

CacheHit(memo, key) == key \in DOMAIN memo

\* get_package_map(pkg_dir, SKA_TOP_SRC_DIR=kwargs) under @functools.cache:
\* the returned index object, the cache afterwards, and whether the body ran.
GetPackageMap(files, memo, nscans, pkg_dir, kwargs) ==
    LET key == CacheKey(pkg_dir, kwargs)
    IN  IF CacheHit(memo, key)
        THEN [ ret |-> memo[key], memo |-> memo, scans |-> nscans, scanned |-> FALSE,
               printed |-> << >>, raised |-> "none" ]
        ELSE LET b == BuildIndex(files, pkg_dir, kwargs, nscans + 1)
                 index == [ id |-> b.id, map |-> b.map ]
             IN  [ ret |-> index,
                   \* functools.cache stores the result only if the body returns
                   memo |-> IF b.raised # "none" THEN memo
                            ELSE [ k \in DOMAIN memo \cup { key } |->
                                     IF k = key THEN index ELSE memo[k] ],
                   scans |-> nscans + 1,
                   scanned |-> TRUE,
                   printed |-> b.printed,
                   raised |-> b.raised ]

(***************************************************************************)
(* Inputs of the index specifications.                                     *)
(***************************************************************************)
S_a == << "a" >>
S_b == << "b" >>
S_x == << "x" >>
S_y == << "y" >>
S_s == << "s" >>
S_t == << "t" >>
Home_ob == << "h", "/", "o", "/", "b" >>
Suffix_ob == << "o", "/", "b" >>
OtherYml == << "o", "t", "h", "e", "r", ".", "y", "m", "l" >>

PathPool ==
    { << S_x, S_a, MetaYaml >>, << S_x, S_a, MetaYml >>, << S_x, S_b, MetaYaml >>,
      << S_y, S_a, MetaYaml >>, << S_x, S_b, OtherYml >> }

\* Every combination of (home, source path, marker), with and without a
\* package name, and a description that does not parse.
DocPool ==
    { Doc(Some(S_a), None, None, FALSE, FALSE),
      Doc(Some(S_a), None, None, TRUE, FALSE),
      Doc(Some(S_b), None, Some(S_b), FALSE, FALSE),
      Doc(Some(S_b), None, Some(S_b), TRUE, FALSE),
      Doc(Some(S_a), Some(Home_ob), None, FALSE, TRUE),
      Doc(Some(S_a), Some(Home_ob), None, TRUE, FALSE),
      Doc(Some(S_b), Some(Home_ob), Some(S_b), FALSE, FALSE),
      Doc(Some(S_b), Some(Home_ob), Some(S_b), TRUE, FALSE),
      Doc(None, Some(Home_ob), None, FALSE, FALSE),
      Unparsable }

FileSystems(paths, docs, n) ==
    UNION { [ P -> docs ] : P \in { Q \in SUBSET paths : Cardinality(Q) <= n } }

ScanRoots == { << >>, << S_x >> }

(***************************************************************************)
(* main: command line to identifier list.                                  *)
(***************************************************************************)
IsSpace(c) == c \in { " ", "\n", "\t" }

Front(s) == SubSeq(s, 1, Len(s) - 1)

\* str.strip()
RECURSIVE LStrip(_)
LStrip(s) == IF s # << >> /\ IsSpace(Head(s)) THEN LStrip(Tail(s)) ELSE s

RECURSIVE RStrip(_)
RStrip(s) == IF s # << >> /\ IsSpace(Last(s)) THEN RStrip(Front(s)) ELSE s

Strip(s) == RStrip(LStrip(s))

\* re.match(r"\s*#", line)
IsComment(line) == LStrip(line) # << >> /\ Head(LStrip(line)) = "#"

\* [line.strip() for line in fh if not re.match(r"\s*#", line) and line.strip()]
RECURSIVE ReadBuildList(_)
ReadBuildList(lines) ==
    IF lines = << >> THEN << >>
    ELSE (IF ~IsComment(Head(lines)) /\ Strip(Head(lines)) # << >>
          THEN << Strip(Head(lines)) >> ELSE << >>)
         \o ReadBuildList(Tail(lines))

\* sorted(list of str): a stable insertion sort.
RECURSIVE Insert(_, _)
Insert(x, sorted) ==
    IF sorted = << >> THEN << x >>
    ELSE IF StrLess(x, Head(sorted)) THEN << x >> \o sorted
    ELSE << Head(sorted) >> \o Insert(x, Tail(sorted))

RECURSIVE Sorted(_)
Sorted(seq) == IF seq = << >> THEN << >> ELSE Insert(Last(seq), Sorted(Front(seq)))

\* sorted(set of str)
RECURSIVE SortedStrs(_)
SortedStrs(S) ==
    IF S = {} THEN << >>
    ELSE LET m == CHOOSE x \in S : \A y \in S \ {x} : StrLess(x, y)
         IN  << m >> \o SortedStrs(S \ {m})

\* args.pkg_defs_path.exists()
Exists(files, path) == \E q \in DOMAIN files : IsPrefix(path, q)

\* [str(pth.name) for pth in args.pkg_defs_path.glob("*") if pth.is_dir()]
SubDirs(files, root) ==
    { q[Len(root) + 1] :
        q \in { r \in DOMAIN files : IsPrefix(root, r) /\ Len(r) >= Len(root) + 2 } }

\* An identifier list that keeps the order of the command line.
PkgNames_Unsorted(a, files) ==
    IF a.packages # << >> THEN a.packages
    ELSE IF a.build_list # None THEN ReadBuildList(Val(a.build_list))
    ELSE SortedStrs(SubDirs(files, a.pkg_defs_path))

\* The identifier list of main (lines 402-415).
PkgNames(a, files) ==
    IF a.packages # << >> THEN Sorted(a.packages)
    ELSE IF a.build_list # None THEN ReadBuildList(Val(a.build_list))
    ELSE SortedStrs(SubDirs(files, a.pkg_defs_path))

Digits == { "0", "1", "2", "3", "4", "5", "6", "7", "8", "9" }

\* Length of the alternative of (a|b|rc) that matches s at position i.
PreLen(s, i) ==
    IF i > Len(s) THEN 0
    ELSE IF s[i] \in { "a", "b" } THEN 1
    ELSE IF i < Len(s) /\ s[i] = "r" /\ s[i + 1] = "c" THEN 2
    ELSE 0

\* First position at or after i that holds no digit.
RECURSIVE SkipDigits(_, _)
SkipDigits(s, i) ==
    IF i <= Len(s) /\ s[i] \in Digits THEN SkipDigits(s, i + 1) ELSE i

\* Whether the pre-release pattern of lines 382-390 matches s with the
\* release segment s[1..i].
RcMatchAt(s, i) ==
    LET q == SkipDigits(s, i + 1 + PreLen(s, i + 1))
    IN  /\ i >= 1
        /\ \A j \in 1..i : ~IsSpace(s[j])
        /\ PreLen(s, i + 1) > 0
        /\ q > i + 1 + PreLen(s, i + 1)
        /\ \/ q = Len(s) + 1
           \/ q < Len(s) /\ s[q] = "+" /\ \A j \in (q + 1)..Len(s) : ~IsSpace(s[j])

\* Lines 371-400: the overwrite directive after main has normalised it.
\* ok is FALSE when main raises "wrong format for ska3_overwrite_version".
NormalizeOverwrite(o) ==
    IF o = None THEN [ ok |-> TRUE, value |-> None ]
    ELSE IF \E j \in 1..Len(Val(o)) : Val(o)[j] = ":"
    THEN [ ok |-> TRUE, value |-> o ]
    ELSE LET s == Val(o)
             found == { i \in 1..Len(s) : RcMatchAt(s, i) }
         IN  IF found = {} THEN [ ok |-> FALSE, value |-> o ]
             ELSE LET i == CHOOSE k \in found : \A m \in found : m <= k   \* greedy \S+
                      q == SkipDigits(s, i + 1 + PreLen(s, i + 1))
                      label == IF q > Len(s) THEN << >> ELSE SubSeq(s, q, Len(s))
                  IN  [ ok |-> TRUE,
                        value |-> Some(SubSeq(s, 1, i) \o label \o << ":" >> \o s) ]

(***************************************************************************)
(* build_package                                                           *)
(***************************************************************************)
\* fnmatch(name, pat) on a case-sensitive platform, for patterns made of
\* literal characters, "*" and "?".
RECURSIVE Fnmatch(_, _)
Fnmatch(name, pat) ==
    IF pat = << >> THEN name = << >>
    ELSE IF Head(pat) = "*"
    THEN Fnmatch(name, Tail(pat)) \/ (name # << >> /\ Fnmatch(Tail(name), pat))
    ELSE /\ name # << >>
         /\ (Head(pat) = "?" \/ Head(pat) = Head(name))
         /\ Fnmatch(Tail(name), Tail(pat))

Ska3Prefix == << "s", "k", "a", "3", "-" >>

\* re.match(r"ska3-\S+$", name)
IsSka3(name) ==
    LET body == IF name # << >> /\ Last(name) = "\n" THEN Front(name) ELSE name
    IN  /\ Len(body) > Len(Ska3Prefix)
        /\ SubSeq(body, 1, Len(Ska3Prefix)) = Ska3Prefix
        /\ \A i \in 1..Len(body) : ~IsSpace(body[i])

NoExc == << >>

\* The names of the files in the directory of a description file.
DirFiles(files, meta_file) ==
    { Last(q) : q \in { r \in DOMAIN files : Front(r) = Front(meta_file) } }

\* shutil.copytree(meta_info["meta_file"].parent, pkg_path), lines 208-209.
\* fault "mkdir": the destination cannot be created; fault "copy": it is
\* created and copying into it fails.
StepStage(b, meta_info, files, fault) ==
    LET name == ParentName(meta_info.meta_file)
        started == [ b EXCEPT !.steps = Append(@, "stage") ]
    IN  IF name \in DOMAIN b.staged
        THEN [ started EXCEPT !.exc = << "stage", "FileExistsError" >> ]
        ELSE IF fault = "mkdir"
        THEN [ started EXCEPT !.exc = << "stage", "OSError" >> ]
        ELSE [ started EXCEPT
                 !.staged = [ n \in DOMAIN b.staged \cup { name } |->
                                IF n = name
                                THEN [ files |-> IF fault = "copy" THEN {}
                                                 ELSE DirFiles(files, meta_info.meta_file),
                                       rewritten |-> None ]
                                ELSE b.staged[n] ],
                 !.exc = IF fault = "copy" THEN << "stage", "Error" >> ELSE NoExc ]

\* A rewrite step that does not look at the directory name.
StepRewrite_AnyName(b, meta_info, a, fault) ==
    LET name == ParentName(meta_info.meta_file)
        started == [ b EXCEPT !.steps = Append(@, "rewrite") ]
    IN  IF b.exc # NoExc THEN b
        ELSE IF a.ska3_overwrite_version = None THEN b
        ELSE IF MetaYaml \notin b.staged[name].files
        THEN [ started EXCEPT !.exc = << "rewrite", "FileNotFoundError" >> ]
        ELSE [ started EXCEPT !.staged[name].rewritten =
                                  Some(Split(Val(a.ska3_overwrite_version), ":")) ]

\* Lines 211-217: the version rewrite of the staged description.
StepRewrite(b, meta_info, a, fault) ==
    LET name == ParentName(meta_info.meta_file)
        started == [ b EXCEPT !.steps = Append(@, "rewrite") ]
    IN  IF b.exc # NoExc THEN b
        ELSE IF ~(a.ska3_overwrite_version # None /\ IsSka3(name)) THEN b
        ELSE LET parts == Split(Val(a.ska3_overwrite_version), ":")
             IN  IF Len(parts) # 2         \* unpacking into two names
                 THEN [ b EXCEPT !.exc = << "rewrite", "ValueError" >> ]
                 ELSE IF MetaYaml \notin b.staged[name].files
                 THEN [ started EXCEPT !.exc = << "rewrite", "FileNotFoundError" >> ]
                 ELSE IF fault = "rewrite"
                 THEN [ started EXCEPT !.exc = << "rewrite", "OSError" >> ]
                 ELSE [ started EXCEPT !.staged[name].rewritten = Some(parts) ]

\* clone_repo (lines 153-199): the destination is the last component of
\* the source path under src_dir.  fault "clone": clone_from fails; fault
\* "checkout": the clone exists and selecting or checking out the tag fails.
StepClone(b, meta_info, fault) ==
    LET dest == Last(Split(Val(meta_info.meta.src), "/"))
        started == [ b EXCEPT !.steps = Append(@, "clone") ]
    IN  IF b.exc # NoExc THEN b
        ELSE IF ~meta_info.has_source THEN b
        ELSE IF dest \in b.cloned \/ fault = "clone"
        THEN [ started EXCEPT !.exc = << "clone", "GitCommandError" >> ]
        ELSE [ started EXCEPT
                 !.cloned = @ \cup { dest },
                 !.exc = IF fault = "checkout" THEN << "clone", "GitCommandError" >>
                         ELSE NoExc ]

\* Lines 222-232: the version derived from the checkout is exported.
StepScm(b, meta_info, fault) ==
    LET started == [ b EXCEPT !.steps = Append(@, "scm") ]
    IN  IF b.exc # NoExc THEN b
        ELSE IF ~meta_info.requires_scm THEN b
        ELSE IF fault = "scm"
        THEN [ started EXCEPT !.exc = << "scm", "CalledProcessError" >> ]
        ELSE [ started EXCEPT !.environ = Some(Val(meta_info.meta.src)) ]

\* A build-tool step that runs whatever happened before it.
StepConda_AfterFailure(b, fault) == [ b EXCEPT !.steps = Append(@, "conda") ]

\* Lines 234-277: the build tool.
StepConda(b, fault) ==
    LET started == [ b EXCEPT !.steps = Append(@, "conda") ]
    IN  IF b.exc # NoExc THEN b
        ELSE IF fault = "conda"
        THEN [ started EXCEPT !.exc = << "conda", "CalledProcessError" >> ]
        ELSE started

\* build_package(meta_info, args, src_dir, build_dir): the steps it starts,
\* the exception that leaves it (NoExc: it returns) and the directories and
\* environment afterwards.
BuildPackage(meta_info, a, files, stage0, cloned0, environ0, fault) ==
    StepConda(
        StepScm(
            StepClone(
                StepRewrite(
                    StepStage([ steps |-> << >>, exc |-> NoExc, staged |-> stage0,
                                cloned |-> cloned0, environ |-> environ0 ],
                              meta_info, files, fault),
                    meta_info, a, fault),
                meta_info, fault),
            meta_info, fault),
        fault)

\* What the collaborators of build_package may do to it.
Faults == { "none", "mkdir", "copy", "rewrite", "clone", "checkout", "scm", "conda" }

\* The faults of the collaborators build_package calls for this package: a
\* collaborator that is not called cannot fail.
FaultsFor(meta_info, a) ==
    { f \in Faults :
        /\ f = "rewrite" =>
               (a.ska3_overwrite_version # None /\ IsSka3(ParentName(meta_info.meta_file)))
        /\ f \in { "clone", "checkout" } => meta_info.has_source
        /\ f = "scm" => meta_info.requires_scm }

(***************************************************************************)
(* build_list_packages                                                     *)
(***************************************************************************)
\* A noarch skip that does not look at the option.
SkipNoarch_IgnoresOption(a, meta_info) == meta_info.meta.noarch

\* args.arch_specific and "noarch" in meta_info["meta"].get("build", {})
SkipNoarch(a, meta_info) == a.arch_specific /\ meta_info.meta.noarch

\* An exclusion test that stops at the first pattern.
Excluded_FirstPatternOnly(a, pkg_name) ==
    a.excludes # << >> /\ Fnmatch(pkg_name, a.excludes[1])

\* any(fnmatch(pkg_name, exclude) for exclude in args.excludes)
Excluded(a, pkg_name) ==
    \E i \in 1..Len(a.excludes) : Fnmatch(pkg_name, a.excludes[i])

\* An except clause that re-raises whatever the option says.
OnBuildError_AlwaysReraise(a, failed, pkg_name) ==
    [ reraise |-> TRUE, failures |-> failed ]

\* An except clause that never re-raises.
OnBuildError_NeverReraise(a, failed, pkg_name) ==
    [ reraise |-> FALSE, failures |-> Append(failed, pkg_name) ]

\* The except clause, lines 305-311.
OnBuildError(a, failed, pkg_name) ==
    IF a.stop_on_error
    THEN [ reraise |-> TRUE, failures |-> failed ]
    ELSE [ reraise |-> FALSE, failures |-> Append(failed, pkg_name) ]

PackagesMsg == << "P", "a", "c", "k", "a", "g", "e", "s", " " >>
FailedMsg == << " ", "f", "a", "i", "l", "e", "d" >>

\* A final test that needs more than one failure.
FinalOutcome_MoreThanOne(failed) ==
    IF Len(failed) > 1
    THEN [ kind |-> "ValueError",
           detail |-> PackagesMsg \o Join(failed, << "," >>) \o FailedMsg ]
    ELSE [ kind |-> "returned", detail |-> << >> ]

\* Lines 313-314.
FinalOutcome(failed) ==
    IF Len(failed) # 0
    THEN [ kind |-> "ValueError",
           detail |-> PackagesMsg \o Join(failed, << "," >>) \o FailedMsg ]
    ELSE [ kind |-> "returned", detail |-> << >> ]

(***************************************************************************)
(* Spec: one run of main on a tree of package descriptions.                *)
(***************************************************************************)
S_c == << "c" >>
S_d == << "d" >>
S_m == << "m" >>
Ska3x == << "s", "k", "a", "3", "-", "x" >>
Ska3a == << "s", "k", "a", "3", "-", "a" >>
PkgDefs == << "p", "k", "g", "_", "d", "e", "f", "s" >>
Home_oc == << "h", "/", "o", "/", "c" >>

\* The temporary directory of main, passed on as SKA_TOP_SRC_DIR.
SrcDir == S_s

\* a: a plain package that declares the name ska3-a; b: a noarch package
\* with a home; c: a package with a source checkout and a version from
\* source control; ska3-x: a meta-package that declares the name m; t: a
\* description that fails validation.
BuildTree ==
    (<< PkgDefs, S_a, MetaYaml >> :> Doc(Some(Ska3a), None, None, FALSE, FALSE))
    @@ (<< PkgDefs, S_b, MetaYaml >> :> Doc(Some(S_b), Some(Home_ob), None, FALSE, TRUE))
    @@ (<< PkgDefs, S_c, MetaYaml >> :> Doc(Some(S_c), Some(Home_oc), Some(S_c), TRUE, FALSE))
    @@ (<< PkgDefs, Ska3x, MetaYaml >> :> Doc(Some(S_m), None, None, FALSE, FALSE))
    @@ (<< PkgDefs, S_t, MetaYaml >> :> Doc(Some(S_t), None, Some(S_t), FALSE, FALSE))

\* Identifiers a caller may name: d is in no description.
Idents == { S_a, S_b, S_c, S_d }

\* Lines of a build-list file.
LinePool ==
    { << "a", "\n" >>, << " ", "b", " ", "\n" >>, << "m", "\n" >>, Ska3a \o << "\n" >>,
      << " ", "#", "a", "\n" >>, << "\n" >> }

SeqsUpTo(S, n) == UNION { [ 1..k -> S ] : k \in 0..n }

ExcludeLists == { << >>, << << "d" >>, << "c", "*" >>, << "b" >> >> }

OverwriteArgs ==
    { None, Some(<< "3", ":", "3", "a", "3" >>), Some(<< "3", "a", "3" >>),
      Some(<< "3" >>) }

ArgsSet ==
    { [ packages |-> in[1], build_list |-> in[2], pkg_defs_path |-> << PkgDefs >>,
        excludes |-> ex, arch_specific |-> ar, stop_on_error |-> st,
        ska3_overwrite_version |-> ov ] :
        in \in { << p, None >> : p \in SeqsUpTo(Idents, MaxLen) }
                 \cup { << << >>, Some(l) >> : l \in SeqsUpTo(LinePool, MaxLines) },
        ex \in ExcludeLists, ar \in BOOLEAN, st \in BOOLEAN, ov \in OverwriteArgs }

NoArgs ==
    [ packages |-> << >>, build_list |-> None, pkg_defs_path |-> << >>,
      excludes |-> << >>, arch_specific |-> FALSE, stop_on_error |-> FALSE,
      ska3_overwrite_version |-> None ]

NoIndex == [ id |-> 0, map |-> EmptyMap ]
NoLast == [ pos |-> 0, name |-> << >>, steps |-> << >>, exc |-> NoExc, fault |-> "none" ]
NoStage == [ n \in {} |-> [ files |-> {}, rewritten |-> None ] ]
Running == [ kind |-> "running", detail |-> << >> ]

RunAt(position) ==
    /\ pc = position
    /\ pkg_names = << >>
    /\ package_paths = NoIndex
    /\ idx = 0
    /\ failures = << >>
    /\ log = << >>
    /\ last = NoLast
    /\ staged = NoStage
    /\ cloned = {}
    /\ environ = None
    /\ outcome = Running

NoRewrite ==
    [ pc |-> "idle", call |-> 0, current_version |-> << >>, new_version |-> << >>,
      lines |-> << >>, i |-> 0, orig |-> << >>, before |-> << >>, first |-> << >> ]

NoClone ==
    [ pc |-> "idle", tags |-> << >>, tag |-> None, repo_url |-> None,
      github_https |-> FALSE, upstream_url |-> << >>, url |-> << >>,
      remotes |-> {}, sorted |-> << >>, checked |-> None, exc |-> "none" ]

\* No call of overwrite_skare3_version or clone_repo on its own, no listing.
NoUnits == disk = << >> /\ rw = NoRewrite /\ repo = NoClone /\ listed = << >>

\* No run of main: the state of the index specifications.
NoRun == args = NoArgs /\ RunAt("idle") /\ NoUnits

Init ==
    /\ fs = BuildTree
    /\ cache = EmptyMap
    /\ scans = 0
    /\ calls = << >>
    /\ args \in ArgsSet
    /\ RunAt("main")
    /\ NoUnits

\* main, lines 363-436, up to the call of build_list_packages.
Main ==
    /\ pc = "main"
    /\ IF ~Exists(fs, args.pkg_defs_path)
       THEN /\ pc' = "done"
            /\ outcome' = [ kind |-> "SystemExit", detail |-> << >> ]
            /\ UNCHANGED << args, pkg_names >>
       ELSE IF ~NormalizeOverwrite(args.ska3_overwrite_version).ok
       THEN /\ pc' = "done"
            /\ outcome' = [ kind |-> "Exception", detail |-> << >> ]
            /\ UNCHANGED << args, pkg_names >>
       ELSE /\ args' = [ args EXCEPT !.ska3_overwrite_version =
                                         NormalizeOverwrite(@).value ]
            /\ pkg_names' = PkgNames(args, fs)
            /\ pc' = "enter"
            /\ UNCHANGED outcome
    /\ UNCHANGED << package_paths, idx, failures, log, last, staged, cloned, environ >>
    /\ UNCHANGED indexVars
    /\ UNCHANGED unitVars

\* build_list_packages, lines 281-284.
EnterBuildList ==
    /\ pc = "enter"
    /\ failures' = << >>
    /\ \E r \in { GetPackageMap(fs, cache, scans, args.pkg_defs_path, SrcDir) } :
           /\ package_paths' = r.ret
           /\ cache' = r.memo
           /\ scans' = r.scans
           /\ calls' = Append(calls, [ pkg_dir |-> args.pkg_defs_path, kwargs |-> SrcDir,
                                        files |-> fs, ret |-> r.ret,
                                        scanned |-> r.scanned,
                                        printed |-> r.printed, raised |-> r.raised ])
    /\ idx' = 1
    /\ pc' = "loop"
    /\ UNCHANGED << fs, args, pkg_names, log, last, staged, cloned, environ, outcome >>
    /\ UNCHANGED unitVars

Event(e) == [ pos |-> idx, name |-> pkg_names[idx], event |-> e ]

\* One iteration of the loop of build_list_packages, lines 285-311.
Iterate ==
    /\ pc = "loop"
    /\ idx <= Len(pkg_names)
    /\ IF pkg_names[idx] \notin DOMAIN package_paths.map
       THEN \* package_paths[pkg_name] raises KeyError
            /\ pc' = "done"
            /\ outcome' = [ kind |-> "KeyError", detail |-> pkg_names[idx] ]
            /\ UNCHANGED << idx, failures, log, last, staged, cloned, environ >>
       ELSE IF SkipNoarch(args, package_paths.map[pkg_names[idx]])
       THEN /\ log' = Append(log, Event("noarch"))
            /\ idx' = idx + 1
            /\ UNCHANGED << pc, failures, last, staged, cloned, environ, outcome >>
       ELSE IF Excluded(args, pkg_names[idx])
       THEN /\ log' = Append(log, Event("excluded"))
            /\ idx' = idx + 1
            /\ UNCHANGED << pc, failures, last, staged, cloned, environ, outcome >>
       ELSE \E fault \in FaultsFor(package_paths.map[pkg_names[idx]], args) :
            \E r \in { BuildPackage(package_paths.map[pkg_names[idx]], args, fs,
                                    staged, cloned, environ, fault) } :
                /\ last' = [ pos |-> idx, name |-> pkg_names[idx],
                             steps |-> r.steps, exc |-> r.exc, fault |-> fault ]
                /\ staged' = r.staged
                /\ cloned' = r.cloned
                /\ environ' = r.environ
                /\ IF r.exc = NoExc
                   THEN /\ log' = Append(log, Event("built"))
                        /\ idx' = idx + 1
                        /\ UNCHANGED << pc, failures, outcome >>
                   ELSE \E h \in { OnBuildError(args, failures, pkg_names[idx]) } :
                        /\ log' = Append(log, Event("raised"))
                        /\ failures' = h.failures
                        /\ IF h.reraise
                           THEN /\ pc' = "done"
                                /\ outcome' = [ kind |-> "reraised",
                                                detail |-> [ pos |-> idx, exc |-> r.exc ] ]
                                /\ UNCHANGED idx
                           ELSE /\ idx' = idx + 1
                                /\ UNCHANGED << pc, outcome >>
    /\ UNCHANGED << args, pkg_names, package_paths >>
    /\ UNCHANGED indexVars
    /\ UNCHANGED unitVars

\* After the loop, lines 313-314.
Finish ==
    /\ pc = "loop"
    /\ idx > Len(pkg_names)
    /\ outcome' = FinalOutcome(failures)
    /\ pc' = "done"
    /\ UNCHANGED << args, pkg_names, package_paths, idx, failures, log, last,
                    staged, cloned, environ >>
    /\ UNCHANGED indexVars
    /\ UNCHANGED unitVars

Next == Main \/ EnterBuildList \/ Iterate \/ Finish

Spec == Init /\ [][Next]_vars

(***************************************************************************)
(* Properties of the build loop (Spec).                                    *)
(***************************************************************************)
\* build_list_packages has obtained the index.
Entered == pc \in { "loop", "done" } /\ package_paths.id # 0

Resolvable(n) == n \in DOMAIN package_paths.map

AllResolvable == \A i \in 1..Len(pkg_names) : Resolvable(pkg_names[i])

\* The two filters as the specification states them.
NoarchSkipped(n) == args.arch_specific /\ package_paths.map[n].meta.noarch

GlobExcluded(n) == \E i \in 1..Len(args.excludes) : Fnmatch(n, args.excludes[i])

FilteredOut(n) == Resolvable(n) /\ (NoarchSkipped(n) \/ GlobExcluded(n))

NotFilteredOut(n) == ~FilteredOut(n)

IsAttempt(e) == e.event \in { "built", "raised" }

HasRaised(e) == e.event = "raised"

\* The build_package calls so far, in the order they were made.
Attempts == SelectSeq(log, IsAttempt)

Names(events) == [ k \in 1..Len(events) |-> events[k].name ]

Positions(events) == [ k \in 1..Len(events) |-> events[k].pos ]

\* The positions 1..n of pkg_names whose identifier is not filtered out.
RECURSIVE UnfilteredUpTo(_)
UnfilteredUpTo(n) ==
    IF n = 0 THEN << >>
    ELSE UnfilteredUpTo(n - 1)
         \o (IF FilteredOut(pkg_names[n]) THEN << >> ELSE << n >>)

\* C1: with stop-on-error off and every identifier resolvable, the
\* build_package calls made so far are exactly the unfiltered positions
\* already passed, once each and in list order, whether or not earlier
\* builds raised; the run ends only after the last position.
C1_UnfilteredAttemptedInOrder ==
    (Entered /\ ~args.stop_on_error /\ AllResolvable) =>
        /\ Positions(Attempts) = UnfilteredUpTo(idx - 1)
        /\ \A k \in 1..Len(Attempts) :
               Attempts[k].name = pkg_names[Attempts[k].pos]
        /\ pc = "done" => idx = Len(pkg_names) + 1

C1_Witness ==
    /\ Entered /\ ~args.stop_on_error /\ AllResolvable
    /\ pc = "done"
    /\ Len(log) = 3
    /\ log[1].event = "raised"
    /\ log[2].event \in { "noarch", "excluded" }
    /\ log[3].event = "built"

\* C2: with stop-on-error off and every identifier resolvable, the run ends
\* with the aggregate error iff some build_package call raised, the
\* aggregate names exactly the identifiers whose build raised, in list
\* order, and the run returns normally when none raised.
C2_AggregateIffSomeBuildRaised ==
    (Entered /\ pc = "done" /\ ~args.stop_on_error /\ AllResolvable) =>
        LET raisers == Names(SelectSeq(log, HasRaised))
        IN  /\ (outcome.kind = "ValueError") <=> (raisers # << >>)
            /\ (raisers = << >>) => outcome.kind = "returned"
            /\ (outcome.kind = "ValueError") =>
                   outcome.detail = PackagesMsg \o Join(raisers, << "," >>) \o FailedMsg

C2_Witness ==
    /\ Entered /\ pc = "done" /\ ~args.stop_on_error /\ AllResolvable
    /\ outcome.kind = "ValueError"
    /\ Len(log) = 3
    /\ log[1].event = "raised"
    /\ log[2].event = "built"
    /\ log[3].event = "raised"
    /\ log[1].name # log[3].name

\* C3: with stop-on-error on, the first exception raised by build_package
\* leaves build_list_packages unchanged, no later identifier is attempted,
\* and the aggregate error is never raised.
C3_StopOnErrorPropagates ==
    (Entered /\ args.stop_on_error) =>
        /\ outcome.kind # "ValueError"
        /\ failures = << >>
        /\ \A k \in 1..Len(log) :
               log[k].event = "raised" =>
                   /\ k = Len(log)
                   /\ pc = "done"
                   /\ idx = log[k].pos
                   /\ outcome.kind = "reraised"
                   /\ last.pos = log[k].pos
                   /\ last.exc # NoExc
                   /\ outcome.detail = [ pos |-> last.pos, exc |-> last.exc ]

C3_Witness ==
    /\ Entered /\ args.stop_on_error
    /\ pc = "done"
    /\ outcome.kind = "reraised"
    /\ Len(log) = 2
    /\ log[1].event = "built"
    /\ log[2].event = "raised"
    /\ idx < Len(pkg_names)
    /\ NotFilteredOut(pkg_names[idx + 1])

\* C4: an identifier that matches a configured exclusion glob is skipped:
\* no step of build_package is run for it and it is never recorded as
\* failed.
C4_ExcludedNeverBuilt ==
    Entered =>
        \A i \in 1..Len(pkg_names) :
            GlobExcluded(pkg_names[i]) =>
                /\ \A k \in 1..Len(log) :
                       log[k].pos = i => log[k].event \in { "noarch", "excluded" }
                /\ last.pos # i
                /\ pkg_names[i] \notin Range(failures)

C4_Witness ==
    /\ Entered /\ pc = "done"
    /\ \E j, k \in 1..Len(log) :
           /\ j < k
           /\ log[j].event = "raised"
           /\ log[k].event = "excluded"
           /\ ~Fnmatch(log[k].name, args.excludes[1])
    /\ outcome.kind = "ValueError"

\* C5: if any identifier of the list is absent from the package index, the
\* run fails without the build tool having been invoked for any package.
C5_UnresolvableAbortsBeforeAnyBuild ==
    (Entered /\ pc = "done" /\ ~AllResolvable) =>
        /\ outcome.kind \notin { "returned", "running" }
        /\ \A k \in 1..Len(log) : log[k].event # "built"
        /\ "conda" \notin Range(last.steps)

\* The identifier sequence the caller supplied.
CallerSequence ==
    IF args.packages # << >> THEN args.packages
    ELSE IF args.build_list # None THEN ReadBuildList(Val(args.build_list))
    ELSE << >>

CallerSupplied == args.packages # << >> \/ args.build_list # None

IsPrefixOf(s, t) == Len(s) <= Len(t) /\ s = SubSeq(t, 1, Len(s))

Completed == pc = "done" /\ outcome.kind \in { "returned", "ValueError" }

Count(seq, x) == Cardinality({ i \in 1..Len(seq) : seq[i] = x })

SameBag(s, t) ==
    Len(s) = Len(t) /\ \A x \in Range(s) \cup Range(t) : Count(s, x) = Count(t, x)

Ascending(seq) == \A i \in 1..(Len(seq) - 1) : ~StrLess(seq[i + 1], seq[i])

\* C6 as stated: the build attempts follow the caller's sequence with the
\* skipped identifiers removed, for command-line packages and for a
\* build-list file alike.
C6_CallerOrderKept ==
    (Entered /\ CallerSupplied) =>
        /\ IsPrefixOf(Names(Attempts), SelectSeq(CallerSequence, NotFilteredOut))
        /\ Completed => Names(Attempts) = SelectSeq(CallerSequence, NotFilteredOut)

\* C6 amended: identifiers read from a build-list file are attempted in
\* file order; identifiers given as command-line packages are attempted
\* in ascending string order (main sorts them), not in the order given;
\* in both cases a completed run has attempted exactly the identifiers
\* supplied that were not skipped.
C6_FileOrderOrSorted ==
    (Entered /\ CallerSupplied) =>
        /\ args.packages = << >> =>
               /\ IsPrefixOf(Names(Attempts), SelectSeq(CallerSequence, NotFilteredOut))
               /\ Completed => Names(Attempts) = SelectSeq(CallerSequence, NotFilteredOut)
        /\ args.packages # << >> =>
               /\ Ascending(Names(Attempts))
               /\ Ascending(pkg_names)
               /\ \A n \in Range(Names(Attempts)) :
                      Count(Names(Attempts), n) <= Count(args.packages, n)
               /\ Completed =>
                      SameBag(Names(Attempts), SelectSeq(args.packages, NotFilteredOut))

C6_Witness ==
    /\ Entered /\ Completed
    /\ args.packages # << >>
    /\ ~Ascending(args.packages)
    /\ Len(Attempts) >= 2
    /\ Names(Attempts) # SelectSeq(args.packages, NotFilteredOut)
    /\ \E i \in 1..Len(args.packages) : FilteredOut(args.packages[i])

\* C15: whenever a run of build_list_packages has ended with at least one
\* identifier recorded as failed, it ended with the aggregate error naming
\* all of them, also when it was aborted.
C15_FailuresNeverLost ==
    (Entered /\ pc = "done" /\ failures # << >>) =>
        /\ outcome.kind = "ValueError"
        /\ outcome.detail = PackagesMsg \o Join(failures, << "," >>) \o FailedMsg

\* The reserved meta-package convention: ska3- and at least one more
\* character, none of them whitespace.
ReservedName(n) ==
    /\ Len(n) >= 6
    /\ SubSeq(n, 1, 5) = << "s", "k", "a", "3", "-" >>
    /\ \A i \in 1..Len(n) : n[i] \notin { " ", "\n", "\t" }

\* The latest build_package call got past staging.
StagingCompleted == last.pos # 0 /\ (last.exc = NoExc \/ last.exc[1] # "stage")

\* The directory name of the package the latest call was made for.
LastDirectory == ParentName(package_paths.map[last.name].meta_file)

\* C16 as stated: the rewrite is invoked iff an overwrite directive is
\* configured and the identifier the caller supplied matches the reserved
\* convention, whatever the directory name of the package.
C16_RewriteIffIdentifierReserved ==
    StagingCompleted =>
        (("rewrite" \in Range(last.steps))
            <=> (args.ska3_overwrite_version # None /\ ReservedName(last.name)))

\* C16 amended: the rewrite is invoked iff an overwrite directive is
\* configured and the directory name of the resolved package matches the
\* reserved convention, whatever alias the caller supplied; it is applied
\* to the staged copy with the configured pair of versions and the files
\* under the scan root stay as they were.
C16_RewriteIffDirectoryReserved ==
    /\ pc # "idle" => fs = BuildTree
    /\ StagingCompleted =>
        /\ ("rewrite" \in Range(last.steps))
               <=> (args.ska3_overwrite_version # None /\ ReservedName(LastDirectory))
        /\ ("rewrite" \in Range(last.steps) /\ last.exc = NoExc) =>
               /\ LastDirectory \in DOMAIN staged
               /\ staged[LastDirectory].rewritten # None
               /\ Join(Val(staged[LastDirectory].rewritten), << ":" >>)
                      = Val(args.ska3_overwrite_version)
        /\ ("rewrite" \notin Range(last.steps)) =>
               staged[LastDirectory].rewritten = None

C16_Witness ==
    /\ StagingCompleted
    /\ last.name = S_m
    /\ LastDirectory = Ska3x
    /\ "rewrite" \in Range(last.steps)
    /\ last.exc = NoExc
    /\ Len(log) = 2
    /\ log[1].name = Ska3a
    /\ log[1].event = "built"
    /\ staged[S_a].rewritten = None

\* C17: the outcome of processing an identifier (the steps run and the
\* exception raised, for the same behaviour of the collaborators) is the
\* outcome it has when nothing was processed before it.
C17_OutcomeIndependentOfHistory ==
    last.pos # 0 =>
        LET alone == BuildPackage(package_paths.map[last.name], args, fs,
                                  NoStage, {}, None, last.fault)
        IN  /\ last.steps = alone.steps
            /\ last.exc = alone.exc

StepOrder == << "stage", "rewrite", "clone", "scm", "conda" >>

StepRank(step) == CHOOSE i \in 1..Len(StepOrder) : StepOrder[i] = step

\* C18: the steps of one build_package call run in the order staging,
\* version rewrite, source materialization, version derivation, build
\* tool; the step that raises is the last one run; version derivation is
\* only run after the source was materialized in the same call; and when
\* the build tool runs for a package that requires a source-control
\* version, SKA_PKG_VERSION holds the value derived for that package.
C18_StepsInFixedOrder ==
    /\ \A k \in DOMAIN package_paths.map :
           package_paths.map[k].requires_scm => package_paths.map[k].has_source
    /\ last.pos # 0 =>
        LET info == package_paths.map[last.name]
            steps == last.steps
        IN  /\ steps # << >> /\ steps[1] = "stage"
            /\ \A i \in 1..Len(steps) : steps[i] \in Range(StepOrder)
            /\ \A i \in 1..(Len(steps) - 1) : StepRank(steps[i]) < StepRank(steps[i + 1])
            /\ last.exc # NoExc => Last(steps) = last.exc[1]
            /\ last.exc = NoExc => Last(steps) = "conda"
            /\ "scm" \in Range(steps) =>
                   /\ "clone" \in Range(steps)
                   /\ info.requires_scm
            /\ "clone" \in Range(steps) <=>
                   (info.has_source /\ (last.exc = NoExc \/ StepRank(last.exc[1]) >= 3))
            /\ ("conda" \in Range(steps) /\ info.requires_scm) =>
                   /\ "scm" \in Range(steps)
                   /\ environ = Some(Val(info.meta.src))

C18_Witness ==
    /\ last.pos # 0
    /\ last.steps = << "stage", "clone", "scm", "conda" >>
    /\ last.exc = << "conda", "CalledProcessError" >>
    /\ environ # None
    /\ Len(log) = 2
    /\ log[1].event = "raised"

\* C19: with the architecture-specific option an identifier whose metadata
\* declares noarch is skipped before the exclusion check, is never built
\* and never recorded as failed; without the option it is processed like
\* any other; and an identifier absent from the index ends the run with
\* KeyError even when a filter would skip it.
C19_NoarchSkipAfterResolution ==
    Entered =>
        /\ \A k \in 1..Len(log) :
               /\ Resolvable(log[k].name)
               /\ LET noarch == package_paths.map[log[k].name].meta.noarch
                  IN  /\ (log[k].event = "noarch") <=> (args.arch_specific /\ noarch)
                      /\ log[k].event = "noarch" =>
                             /\ last.pos # log[k].pos
                             /\ log[k].name \notin Range(failures)
                      /\ (noarch /\ ~args.arch_specific) =>
                             IF GlobExcluded(log[k].name)
                             THEN log[k].event = "excluded"
                             ELSE log[k].event \in { "built", "raised" }
        /\ (pc = "done" /\ idx \in 1..Len(pkg_names) /\ ~Resolvable(pkg_names[idx])) =>
               /\ outcome.kind = "KeyError"
               /\ outcome.detail = pkg_names[idx]
        /\ Completed => AllResolvable

C19_Witness ==
    /\ Entered /\ pc = "done"
    /\ args.arch_specific
    /\ outcome.kind = "KeyError"
    /\ GlobExcluded(pkg_names[idx])
    /\ \E k \in 1..Len(log) : log[k].event = "noarch" /\ GlobExcluded(log[k].name)

(***************************************************************************)
(* SpecScan: one call of get_package_map on an arbitrary tree.             *)
(***************************************************************************)
InitScan ==
    /\ fs \in FileSystems(PathPool, DocPool, MaxFiles)
    /\ cache = EmptyMap
    /\ scans = 0
    /\ calls = << >>
    /\ NoRun

CallGetPackageMap(pkg_dir, kwargs) ==
    \E r \in { GetPackageMap(fs, cache, scans, pkg_dir, kwargs) } :
        /\ cache' = r.memo
        /\ scans' = r.scans
        /\ calls' = Append(calls, [ pkg_dir |-> pkg_dir, kwargs |-> kwargs,
                                     files |-> fs, ret |-> r.ret,
                                     scanned |-> r.scanned,
                                     printed |-> r.printed, raised |-> r.raised ])
        /\ UNCHANGED fs

ScanOnce ==
    /\ calls = << >>
    /\ \E pkg_dir \in ScanRoots : CallGetPackageMap(pkg_dir, S_s)
    /\ UNCHANGED buildVars
    /\ UNCHANGED unitVars

NextScan == ScanOnce

SpecScan == InitScan /\ [][NextScan]_vars


Restrict(f, S) == [ p \in S |-> f[p] ]

(***************************************************************************)
(* SpecCache: repeated calls of get_package_map while the tree changes.    *)
(***************************************************************************)
CachePath == << S_x, S_b, MetaYaml >>

CacheDocs ==
    { Doc(Some(S_a), None, None, FALSE, FALSE),
      Doc(Some(S_b), Some(Home_ob), Some(S_b), TRUE, FALSE) }

InitCache ==
    /\ fs \in FileSystems({ CachePath }, CacheDocs, 1)
    /\ cache = EmptyMap
    /\ scans = 0
    /\ calls = << >>
    /\ NoRun

Call ==
    /\ Len(calls) < MaxCalls
    /\ \E pkg_dir \in ScanRoots, kwargs \in { S_s, S_t } :
           CallGetPackageMap(pkg_dir, kwargs)
    /\ UNCHANGED buildVars
    /\ UNCHANGED unitVars

\* The environment writes or replaces a description file.
WriteFile ==
    /\ \E doc \in CacheDocs :
           /\ (CachePath \in DOMAIN fs => fs[CachePath] # doc)
           /\ fs' = [ p \in DOMAIN fs \cup { CachePath } |->
                        IF p = CachePath THEN doc ELSE fs[p] ]
    /\ UNCHANGED << cache, scans, calls >>
    /\ UNCHANGED buildVars
    /\ UNCHANGED unitVars

\* The environment removes a description file.
RemoveFile ==
    /\ CachePath \in DOMAIN fs
    /\ fs' = Restrict(fs, DOMAIN fs \ { CachePath })
    /\ UNCHANGED << cache, scans, calls >>
    /\ UNCHANGED buildVars
    /\ UNCHANGED unitVars

NextCache == Call \/ WriteFile \/ RemoveFile

SpecCache == InitCache /\ [][NextCache]_vars

(***************************************************************************)
(* Properties of get_meta and get_package_map (SpecScan).                  *)
(***************************************************************************)

\* The validation rule as the specification states it.
InvalidMetadata(doc) ==
    \/ doc.src # None /\ doc.home = None
    \/ doc.marker /\ ~(doc.src # None /\ doc.home # None)

\* A description loads when it parses, passes validation and declares a name.
LoadsSuccessfully(doc) == doc.loads /\ ~InvalidMetadata(doc) /\ doc.name # None

\* The org/repo suffix of a URL: what follows its second-to-last slash.
OrgRepo(url) ==
    LET slashes == { i \in 1..Len(url) : url[i] = "/" }
    IN  IF Cardinality(slashes) < 2 THEN url
        ELSE LET cut == CHOOSE i \in slashes :
                            Cardinality({ j \in slashes : j > i }) = 1
             IN  SubSeq(url, cut + 1, Len(url))

\* The aliases the specification gives a package.
Aliases(p, doc) ==
    { p[Len(p) - 1], Val(doc.name) }
        \cup (IF doc.home # None THEN { OrgRepo(Val(doc.home)) } ELSE {})

Loaded(c) == { p \in GlobMeta(fs, c.pkg_dir) : LoadsSuccessfully(fs[p]) }

\* C7: get_meta fails with a validation error (ValueError) exactly when a
\* source path is declared without a home URL, or a version-injection marker
\* is present without both; it succeeds otherwise; and every record stored
\* in the index satisfies has_source => has_home and
\* requires_scm => (has_source /\ has_home).
C7_ValidationExactly ==
    \A i \in 1..Len(calls) :
        LET c == calls[i]
        IN  /\ \A p \in GlobMeta(fs, c.pkg_dir) :
                   fs[p].loads =>
                       /\ (<< p, "ValueError" >> \in Range(c.printed))
                              <=> InvalidMetadata(fs[p])
                       /\ << p, "LoadError" >> \notin Range(c.printed)
            /\ \A k \in DOMAIN c.ret.map :
                   LET info == c.ret.map[k]
                   IN  /\ info.has_source => info.has_home
                       /\ info.requires_scm => (info.has_source /\ info.has_home)

C7_Witness ==
    \E i \in 1..Len(calls) :
        /\ \E p \in GlobMeta(fs, calls[i].pkg_dir) :
               /\ fs[p].marker /\ fs[p].src = None /\ fs[p].home # None
               /\ << p, "ValueError" >> \in Range(calls[i].printed)
        /\ \E k \in DOMAIN calls[i].ret.map : calls[i].ret.map[k].requires_scm

\* C8 as stated: every alias of every successfully loaded package is in the
\* index and maps to that package's own metadata object.
C8_AllAliasesOwnObject ==
    \A i \in 1..Len(calls) :
        \A p \in Loaded(calls[i]) :
            \A k \in Aliases(p, fs[p]) :
                /\ k \in DOMAIN calls[i].ret.map
                /\ calls[i].ret.map[k].obj = << calls[i].ret.id, p >>

\* C8 amended: every alias of every successfully loaded package is in the
\* index and maps to the one metadata object of the last file, in sorted
\* path order, that loads successfully and declares that alias: the
\* package's own object unless a later file declares the same alias.
C8_AliasesLastDeclarerWins ==
    \A i \in 1..Len(calls) :
        \A p \in Loaded(calls[i]) :
            \A k \in Aliases(p, fs[p]) :
                LET declarers == { q \in Loaded(calls[i]) : k \in Aliases(q, fs[q]) }
                    winner == CHOOSE q \in declarers :
                                \A r \in declarers \ { q } : PathLess(r, q)
                IN  /\ k \in DOMAIN calls[i].ret.map
                    /\ calls[i].ret.map[k].obj = << calls[i].ret.id, winner >>
                    /\ calls[i].ret.map[k].meta_file = winner
                    /\ (\A q \in declarers : ~PathLess(p, q))
                           => calls[i].ret.map[k].obj = << calls[i].ret.id, p >>

C8_Witness ==
    \E i \in 1..Len(calls) :
        \E p, q \in Loaded(calls[i]) :
            /\ PathLess(p, q)
            /\ fs[p].home # None
            /\ Cardinality(Aliases(p, fs[p])) = 3
            /\ \E k \in Aliases(p, fs[p]) \cap Aliases(q, fs[q]) :
                   calls[i].ret.map[k].obj = << calls[i].ret.id, q >>
            /\ \E k \in Aliases(p, fs[p]) \ Aliases(q, fs[q]) :
                   calls[i].ret.map[k].obj = << calls[i].ret.id, p >>

\* C9: get_package_map does not raise; the index equals the index built
\* from only the files that load successfully; a file that fails to load
\* contributes no alias, and removing it changes nothing.
C9_MalformedTolerated ==
    \A i \in 1..Len(calls) :
        LET c == calls[i]
            good == Loaded(c)
        IN  /\ c.raised = "none"
            /\ c.ret.map =
                   BuildIndex(Restrict(fs, good), c.pkg_dir, c.kwargs, c.ret.id).map
            /\ \A p \in GlobMeta(fs, c.pkg_dir) \ good :
                   /\ \A k \in DOMAIN c.ret.map : c.ret.map[k].meta_file # p
                   /\ c.ret.map =
                          BuildIndex(Restrict(fs, DOMAIN fs \ { p }), c.pkg_dir,
                                     c.kwargs, c.ret.id).map

C9_Witness ==
    \E i \in 1..Len(calls) :
        /\ \E p \in GlobMeta(fs, calls[i].pkg_dir) :
               << p, "KeyError" >> \in Range(calls[i].printed)
        /\ \E p \in GlobMeta(fs, calls[i].pkg_dir) :
               << p, "ValueError" >> \in Range(calls[i].printed)
        /\ DOMAIN calls[i].ret.map # {}


(***************************************************************************)
(* Properties of the memoization (SpecCache).                              *)
(***************************************************************************)
SameArgs(c, d) == c.pkg_dir = d.pkg_dir /\ c.kwargs = d.kwargs

\* C10: a later call with the same arguments returns the very same index
\* object as the first such call and neither scans nor loads, whatever
\* happened to the files in between; a call whose arguments were not seen
\* before performs its own scan of the tree as it is then.
C10_Memoized ==
    \A j \in 1..Len(calls) :
        LET earlier == { i \in 1..(j - 1) : SameArgs(calls[i], calls[j]) }
        IN  IF earlier # {}
            THEN \A i \in earlier :
                     /\ calls[j].ret = calls[i].ret
                     /\ ~calls[j].scanned
                     /\ calls[j].printed = << >>
            ELSE /\ calls[j].scanned
                 /\ \A i \in 1..(j - 1) : calls[i].ret.id # calls[j].ret.id
                 /\ calls[j].ret.map =
                        BuildIndex(calls[j].files, calls[j].pkg_dir,
                                   calls[j].kwargs, calls[j].ret.id).map

C10_Witness ==
    \E i, j, k \in 1..Len(calls) :
        /\ i < j /\ j < k
        /\ SameArgs(calls[i], calls[k])
        /\ ~SameArgs(calls[i], calls[j])
        /\ calls[i].pkg_dir = calls[j].pkg_dir
        /\ calls[i].files # calls[k].files
        /\ calls[k].ret = calls[i].ret
        /\ calls[k].ret.map #
               BuildIndex(calls[k].files, calls[k].pkg_dir, calls[k].kwargs,
                          calls[k].ret.id).map
        /\ calls[j].scanned

(***************************************************************************)
(* overwrite_skare3_version                                                *)
(***************************************************************************)
\* First position at or after i that holds no whitespace (Len + 1: none).
RECURSIVE SkipSpace(_, _)
SkipSpace(s, i) == IF i <= Len(s) /\ IsSpace(s[i]) THEN SkipSpace(s, i + 1) ELSE i

\* First position at or after i that holds whitespace (Len + 1: none).
RECURSIVE SkipNonSpace(_, _)
SkipNonSpace(s, i) == IF i <= Len(s) /\ ~IsSpace(s[i]) THEN SkipNonSpace(s, i + 1) ELSE i

HasAt(s, i, lit) ==
    i >= 1 /\ i + Len(lit) - 1 <= Len(s) /\ SubSeq(s, i, i + Len(lit) - 1) = lit

\* fh.readlines(): the text cut after every newline.
RECURSIVE ReadLines(_)
ReadLines(text) ==
    IF text = << >> THEN << >>
    ELSE IF \A i \in 1..Len(text) : text[i] # "\n" THEN << text >>
    ELSE LET i == CHOOSE k \in 1..Len(text) :
                      text[k] = "\n" /\ \A j \in 1..(k - 1) : text[j] # "\n"
         IN  << SubSeq(text, 1, i) >> \o ReadLines(SubSeq(text, i + 1, Len(text)))

VersionKey == << "v", "e", "r", "s", "i", "o", "n" >>

\* The group "version" of the pattern of line 340 matched with the key at
\* position k: \s* and \S+ are greedy, so the token is the whole run.
VersionAt(line, k) ==
    LET c == SkipSpace(line, k + Len(VersionKey))
        t == SkipSpace(line, c + 1)
    IN  IF HasAt(line, k, VersionKey) /\ c <= Len(line) /\ line[c] = ":" /\ t <= Len(line)
        THEN Some(SubSeq(line, t, SkipNonSpace(line, t) - 1))
        ELSE None

\* re.search(r"(\s+)?version(\s+)?:(\s+)?(?P<version>(\S+)+)", line):
\* the group of the leftmost match, None when there is no match.
SearchVersion(line) ==
    LET found == { k \in 1..Len(line) : VersionAt(line, k) # None }
    IN  IF found = {} THEN None
        ELSE VersionAt(line, CHOOSE k \in found : \A j \in found : k <= j)

\* The groups of the pattern of line 346 matched with the name line[n..e].
PinnedAt(line, n, e) ==
    LET q == SkipSpace(line, e + 1)
        t == SkipSpace(line, q + 2)
    IN  IF HasAt(line, q, << "=", "=" >>) /\ t <= Len(line)
        THEN Some([ name |-> SubSeq(line, n, e),
                    version |-> SubSeq(line, t, SkipNonSpace(line, t) - 1) ])
        ELSE None

\* re.search(r"(\s+)?(?P<name>\S+)(\s+)?==(\s+)?(?P<version>(\S+)+)", line):
\* the leftmost start of a name that matches, then the longest name.
SearchPinned(line) ==
    LET ends(n) == { e \in n..(SkipNonSpace(line, n) - 1) : PinnedAt(line, n, e) # None }
        starts == { n \in 1..Len(line) : ~IsSpace(line[n]) /\ ends(n) # {} }
    IN  IF starts = {} THEN None
        ELSE LET n == CHOOSE k \in starts : \A j \in starts : k <= j
                 e == CHOOSE k \in ends(n) : \A j \in ends(n) : j <= k
             IN  PinnedAt(line, n, e)

\* str.replace(old, new)
RECURSIVE Replace(_, _, _)
Replace(s, old, new) ==
    IF old = << >>
    THEN new \o (IF s = << >> THEN << >> ELSE << Head(s) >> \o Replace(Tail(s), old, new))
    ELSE IF Len(s) < Len(old) THEN s
    ELSE IF SubSeq(s, 1, Len(old)) = old
    THEN new \o Replace(SubSeq(s, Len(old) + 1, Len(s)), old, new)
    ELSE << Head(s) >> \o Replace(Tail(s), old, new)

\* A loop body that rewrites the pin of any dependency.
RewriteLine_AnyDependency(line, current_version, new_version) ==
    LET v == SearchVersion(line)
        d == SearchPinned(line)
    IN  IF \/ v # None /\ Val(v) = current_version
           \/ d # None /\ Val(d).version = current_version
        THEN Replace(line, current_version, new_version)
        ELSE line

\* The body of the loop of lines 339-356 for one line.
RewriteLine(line, current_version, new_version) ==
    LET v == SearchVersion(line)
        d == SearchPinned(line)
    IN  IF \/ v # None /\ Val(v) = current_version
           \/ d # None /\ IsSka3(Val(d).name) /\ Val(d).version = current_version
        THEN Replace(line, current_version, new_version)
        ELSE line

RewriteLines(lines, current_version, new_version) ==
    [ i \in 1..Len(lines) |-> RewriteLine(lines[i], current_version, new_version) ]

\* A write that ends every line with a newline of its own.
WriteLine_Newline(text, line) == text \o line \o << "\n" >>

\* f.write(line)
WriteLine(text, line) == text \o line

(***************************************************************************)
(* SpecRewrite: overwrite_skare3_version(X, Y, pkg_path), then again with  *)
(* (Y, Y), on a staged meta.yaml; opening, reading and writing may fail.   *)
(***************************************************************************)
V_3 == << "3" >>
V_4 == << "4" >>
V_33 == << "3", "3" >>

VersionPairs == { << V_3, V_4 >>, << V_3, V_33 >>, << V_3, V_3 >>, << V_4, V_3 >> }

RwLinePool ==
    { << "v", "e", "r", "s", "i", "o", "n", ":", " ", "3", "\n" >>,
      << " ", "v", "e", "r", "s", "i", "o", "n", " ", ":", "3", " ", "#", "3", "\n" >>,
      << "v", "e", "r", "s", "i", "o", "n", ":", " ", "3", "3", "\n" >>,
      << "x", "v", "e", "r", "s", "i", "o", "n", ":", " ", "3", "\n" >>,
      << "v", "e", "r", "s", "i", "o", "n", ":", "\n" >>,
      << "-", " ", "s", "k", "a", "3", "-", "x", " ", "=", "=", "3", "\n" >>,
      << "s", "k", "a", "3", "-", "3", "=", "=", " ", "3", "\n" >>,
      << "-", " ", "a", " ", "=", "=", "3", "\n" >>,
      << "v", "e", "r", "s", "i", "o", "n", ":", " ", "4", " ",
         "s", "k", "a", "3", "-", "x", " ", "=", "=", "3", "\n" >> }

RECURSIVE Concat(_)
Concat(lines) == IF lines = << >> THEN << >> ELSE Head(lines) \o Concat(Tail(lines))

\* The texts of at most MaxRwLines lines, the last one with or without its
\* newline.
RwTexts ==
    { IF newline \/ ls = << >> THEN Concat(ls) ELSE Front(Concat(ls)) :
        ls \in SeqsUpTo(RwLinePool, MaxRwLines), newline \in BOOLEAN }

NoFiles == [ p \in {} |-> Unparsable ]

InitRewrite ==
    /\ fs = NoFiles
    /\ cache = EmptyMap
    /\ scans = 0
    /\ calls = << >>
    /\ args = NoArgs
    /\ RunAt("idle")
    /\ repo = NoClone
    /\ listed = << >>
    /\ disk \in RwTexts
    /\ \E v \in VersionPairs :
           rw = [ NoRewrite EXCEPT !.pc = "call", !.call = 1,
                                   !.current_version = v[1], !.new_version = v[2],
                                   !.orig = disk, !.before = disk ]

RewriteFrame == UNCHANGED << indexVars, buildVars, repo, listed >>

\* Lines 337-338: open(meta_file) and fh.readlines().
RwRead ==
    /\ rw.pc = "call"
    /\ \/ rw' = [ rw EXCEPT !.pc = "loop", !.lines = ReadLines(disk) ]
       \/ rw' = [ rw EXCEPT !.pc = "raised" ]
    /\ UNCHANGED disk
    /\ RewriteFrame

\* Lines 339-356: the loop over the lines in memory.
RwLoop ==
    /\ rw.pc = "loop"
    /\ rw' = [ rw EXCEPT !.pc = "open",
                         !.lines = RewriteLines(@, rw.current_version, rw.new_version) ]
    /\ UNCHANGED disk
    /\ RewriteFrame

\* Line 358: open(meta_file, "w") truncates the file when it succeeds.
RwOpenWrite ==
    /\ rw.pc = "open"
    /\ \/ /\ disk' = << >>
          /\ rw' = [ rw EXCEPT !.pc = "write", !.i = 1 ]
       \/ /\ rw' = [ rw EXCEPT !.pc = "raised" ]
          /\ UNCHANGED disk
    /\ RewriteFrame

\* Lines 359-360: one f.write(line); a failed write leaves what was written.
RwWrite ==
    /\ rw.pc = "write"
    /\ rw.i <= Len(rw.lines)
    /\ \/ /\ disk' = WriteLine(disk, rw.lines[rw.i])
          /\ rw' = [ rw EXCEPT !.i = @ + 1 ]
       \/ /\ rw' = [ rw EXCEPT !.pc = "raised" ]
          /\ UNCHANGED disk
    /\ RewriteFrame

\* The end of the with block of line 358: the function returns.
RwClose ==
    /\ rw.pc = "write"
    /\ rw.i > Len(rw.lines)
    /\ rw' = [ rw EXCEPT !.pc = "returned",
                         !.first = IF rw.call = 1 THEN disk ELSE @ ]
    /\ UNCHANGED disk
    /\ RewriteFrame

\* The caller applies the rewrite again, with (Y, Y).
RwAgain ==
    /\ rw.pc = "returned"
    /\ rw.call = 1
    /\ rw' = [ rw EXCEPT !.pc = "call", !.call = 2,
                         !.current_version = rw.new_version, !.before = disk ]
    /\ UNCHANGED disk
    /\ RewriteFrame

NextRewrite == RwRead \/ RwLoop \/ RwOpenWrite \/ RwWrite \/ RwClose \/ RwAgain

SpecRewrite == InitRewrite /\ [][NextRewrite]_vars

(***************************************************************************)
(* Properties of overwrite_skare3_version (SpecRewrite).                   *)
(***************************************************************************)
Blank(c) == c \in { " ", "\t", "\n" }

Blanks(line, i, j) == \A k \in i..j : Blank(line[k])

\* A token equal to v starts at position t of the line.
TokenAt(line, t, v) ==
    /\ v # << >>
    /\ \A k \in 1..Len(v) : ~Blank(v[k])
    /\ t + Len(v) - 1 <= Len(line)
    /\ SubSeq(line, t, t + Len(v) - 1) = v
    /\ (t + Len(v) <= Len(line) => Blank(line[t + Len(v)]))

\* Pattern (1): the key version, optional whitespace, a colon, optional
\* whitespace, a token equal to v.
HasVersionAssignment(line, v) ==
    \E k \in { i \in 1..(Len(line) - 6) : SubSeq(line, i, i + 6) = VersionKey } :
        \E c \in { i \in (k + 7)..Len(line) : line[i] = ":" } :
            \E t \in (c + 1)..Len(line) :
                /\ Blanks(line, k + 7, c - 1)
                /\ Blanks(line, c + 1, t - 1)
                /\ TokenAt(line, t, v)

\* Pattern (2): a name ska3-<non-whitespace>, optional whitespace, ==,
\* optional whitespace, a token equal to v.
HasReservedPin(line, v) ==
    \E n \in 1..Len(line) :
        \E q \in { i \in (n + 1)..(Len(line) - 1) : line[i] = "=" /\ line[i + 1] = "=" } :
            \E e \in n..(q - 1) :
                \E t \in (q + 2)..Len(line) :
                    /\ ReservedName(SubSeq(line, n, e))
                    /\ Blanks(line, e + 1, q - 1)
                    /\ Blanks(line, q + 2, t - 1)
                    /\ TokenAt(line, t, v)

\* The pieces of s between the occurrences of a non-empty old, found from
\* the left.
RECURSIVE Pieces(_, _)
Pieces(s, old) ==
    LET at == { i \in 1..(Len(s) - Len(old) + 1) : SubSeq(s, i, i + Len(old) - 1) = old }
    IN  IF at = {} THEN << s >>
        ELSE LET i == CHOOSE k \in at : \A j \in at : k <= j
             IN  << SubSeq(s, 1, i - 1) >> \o Pieces(SubSeq(s, i + Len(old), Len(s)), old)

\* The line with every occurrence of old replaced by new.
EveryOccurrenceReplaced(line, old, new) == Join(Pieces(line, old), new)

\* The lines of a text: every newline ends a line.
LinesOf(text) ==
    LET ends == { i \in 1..Len(text) : text[i] = "\n" \/ i = Len(text) }
        start(e) == IF \E j \in ends : j < e
                    THEN 1 + CHOOSE j \in ends : j < e /\ \A k \in ends : k < e => k <= j
                    ELSE 1
    IN  [ n \in 1..Cardinality(ends) |->
            LET e == CHOOSE i \in ends : Cardinality({ j \in ends : j <= i }) = n
            IN  SubSeq(text, start(e), e) ]

C12_AllOrNothing ==
    /\ rw.pc = "returned" =>
           disk = Concat(RewriteLines(ReadLines(rw.before), rw.current_version,
                                      rw.new_version))
    /\ rw.pc = "raised" => disk = rw.before

\* C13: after rewrite (X, Y) and then rewrite (Y, Y) have both returned,
\* the file content is the content left by the first call.
C13_IdempotentAtTarget ==
    (rw.pc = "returned" /\ rw.call = 2) =>
        /\ rw.current_version = rw.new_version
        /\ disk = rw.first

C13_Witness ==
    /\ rw.pc = "returned"
    /\ rw.call = 2
    /\ rw.first # rw.orig
    /\ \E i \in 1..Len(LinesOf(disk)) :
           HasVersionAssignment(LinesOf(disk)[i], rw.new_version)
    /\ disk # << >> /\ Last(disk) # "\n"

(***************************************************************************)
(* clone_repo                                                              *)
(***************************************************************************)
GitSsh ==
    << "g", "i", "t", "@", "g", "i", "t", "h", "u", "b", ".", "c", "o", "m", ":" >>

GitHttps ==
    << "h", "t", "t", "p", "s", ":", "/", "/",
       "g", "i", "t", "h", "u", "b", ".", "c", "o", "m", "/" >>

\* Lines 164-172: the URL to clone from.
CloneUrl(repo_url, upstream_url, github_https) ==
    IF repo_url # None THEN Val(repo_url)
    ELSE IF github_https THEN Replace(upstream_url, GitSsh, GitHttps)
    ELSE Replace(upstream_url, GitHttps, GitSsh)

\* An insertion that puts a tag before the tags of the same timestamp.
RECURSIVE InsertByTime_BeforeEqual(_, _)
InsertByTime_BeforeEqual(t, sorted) ==
    IF sorted = << >> THEN << t >>
    ELSE IF t.time <= Head(sorted).time THEN << t >> \o sorted
    ELSE << Head(sorted) >> \o InsertByTime_BeforeEqual(t, Tail(sorted))

\* sorted(..., key=lambda t: t.commit.committed_datetime) is stable: a tag
\* goes after every tag whose timestamp is not greater.
RECURSIVE InsertByTime(_, _)
InsertByTime(t, sorted) ==
    IF sorted = << >> THEN << t >>
    ELSE IF t.time < Head(sorted).time THEN << t >> \o sorted
    ELSE << Head(sorted) >> \o InsertByTime(t, Tail(sorted))

\* Line 187: the tags sorted by the timestamp of their commit.
RECURSIVE SortedByTime(_)
SortedByTime(tags) ==
    IF tags = << >> THEN << >>
    ELSE InsertByTime(Last(tags), SortedByTime(Front(tags)))

(***************************************************************************)
(* SpecClone: one call of clone_repo.  repo.tags is repo.tags of the       *)
(* clone in discovery order; a tag is its name and the timestamp of its    *)
(* commit; reference 0 is a branch, reference i > 0 is the tag named i.    *)
(***************************************************************************)
RECURSIVE TagSeqs(_)
TagSeqs(n) ==
    IF n = 0 THEN { << >> }
    ELSE TagSeqs(n - 1)
         \cup { Append(ts, [ name |-> nm, time |-> tm ]) :
                    ts \in { q \in TagSeqs(n - 1) : Len(q) = n - 1 },
                    nm \in 1..MaxTags, tm \in 1..MaxTime }

DistinctNames(ts) == \A i, j \in 1..Len(ts) : ts[i].name = ts[j].name => i = j

UpstreamUrl == GitSsh \o << "o", "/", "c" >>
ForkUrl == GitHttps \o << "x", "/", "c" >>

InitClone ==
    /\ fs = NoFiles
    /\ cache = EmptyMap
    /\ scans = 0
    /\ calls = << >>
    /\ args = NoArgs
    /\ RunAt("idle")
    /\ disk = << >>
    /\ rw = NoRewrite
    /\ listed = << >>
    /\ \E ts \in { q \in TagSeqs(MaxTags) : DistinctNames(q) },
          tg \in { None, Some(0), Some(1) },
          ru \in { None, Some(ForkUrl) },
          h \in BOOLEAN :
           repo = [ NoClone EXCEPT !.pc = "clone", !.tags = ts, !.tag = tg,
                                   !.repo_url = ru, !.github_https = h,
                                   !.upstream_url = UpstreamUrl ]

CloneFrame == UNCHANGED << indexVars, buildVars, disk, rw, listed >>

\* Lines 164-175: git.Repo.clone_from(url, clone_path).
CloneFrom ==
    /\ repo.pc = "clone"
    /\ \/ repo' = [ repo EXCEPT
                      !.url = CloneUrl(repo.repo_url, repo.upstream_url, repo.github_https),
                      !.remotes = { "origin" },
                      !.pc = IF repo.repo_url # None THEN "fetch" ELSE "checkout" ]
       \/ repo' = [ repo EXCEPT !.pc = "raised", !.exc = "GitCommandError" ]
    /\ CloneFrame

\* Lines 177-180: the tags are fetched from the upstream URL.
FetchUpstream ==
    /\ repo.pc = "fetch"
    /\ \/ repo' = [ repo EXCEPT !.remotes = @ \cup { "upstream" }, !.pc = "checkout" ]
       \/ repo' = [ repo EXCEPT !.pc = "raised", !.exc = "GitCommandError" ]
    /\ CloneFrame

\* Lines 186-199: the tag selection and the checkout.
Checkout ==
    /\ repo.pc = "checkout"
    /\ IF repo.tag = None
       THEN IF repo.tags = << >>
            THEN repo' = [ repo EXCEPT !.pc = "raised", !.exc = "IndexError" ]   \* tags[-1]
            ELSE \/ repo' = [ repo EXCEPT
                                !.sorted = SortedByTime(repo.tags),
                                !.checked = Some(Last(SortedByTime(repo.tags)).name),
                                !.pc = "done" ]
                 \/ repo' = [ repo EXCEPT !.sorted = SortedByTime(repo.tags),
                                          !.pc = "raised", !.exc = "GitCommandError" ]
       ELSE \/ repo' = [ repo EXCEPT !.checked = repo.tag, !.pc = "done" ]
            \/ repo' = [ repo EXCEPT !.pc = "raised", !.exc = "GitCommandError" ]
    /\ CloneFrame

NextClone == CloneFrom \/ FetchUpstream \/ Checkout

SpecClone == InitClone /\ [][NextClone]_vars

\* C14: with no reference requested and a non-empty tag list, the tag
\* checked out has the greatest commit timestamp of all tags and is the
\* last one in discovery order among the tags with that timestamp; with a
\* reference requested, that reference is checked out and the tags are
\* not sorted.
C14_LatestTagLastDiscovered ==
    repo.pc = "done" =>
        /\ repo.tag = None =>
               /\ repo.tags # << >>
               /\ \E i \in 1..Len(repo.tags) :
                      /\ repo.checked = Some(repo.tags[i].name)
                      /\ \A j \in 1..Len(repo.tags) : repo.tags[j].time <= repo.tags[i].time
                      /\ \A j \in (i + 1)..Len(repo.tags) :
                             repo.tags[j].time < repo.tags[i].time
        /\ repo.tag # None =>
               /\ repo.checked = repo.tag
               /\ repo.sorted = << >>

C14_Witness ==
    /\ repo.pc = "done"
    /\ repo.tag = None
    /\ Len(repo.tags) = 3
    /\ repo.tags[1].time = repo.tags[2].time
    /\ repo.tags[3].time < repo.tags[2].time
    /\ repo.checked = Some(repo.tags[2].name)

(***************************************************************************)
(* SpecListing: the body of get_package_map on a tree that the file        *)
(* system lists in an arbitrary order.                                     *)
(***************************************************************************)
\* pkg_dir.glob("**/" + leaf): the matching paths in the order the file
\* system lists them.
RECURSIVE GlobListing(_, _, _)
GlobListing(listing, pkg_dir, leaf) ==
    IF listing = << >> THEN << >>
    ELSE (IF /\ Len(Head(listing)) > Len(pkg_dir)
             /\ IsPrefix(pkg_dir, Head(listing))
             /\ Last(Head(listing)) = leaf
          THEN << Head(listing) >> ELSE << >>)
         \o GlobListing(Tail(listing), pkg_dir, leaf)

\* A loop over the files as the two globs list them.
Pkgs_AsListed(yaml, yml) == yaml \o yml

\* Line 134: sorted(set(glob("**/meta.yaml")) | set(glob("**/meta.yml")))
Pkgs(yaml, yml) == SortedPaths(Range(yaml) \cup Range(yml))

\* Lines 133-150 run as scan number `scan` on the listing.
BuildIndexListed(listing, files, pkg_dir, kwargs, scan) ==
    LET pkgs == Pkgs(GlobListing(listing, pkg_dir, MetaYaml),
                     GlobListing(listing, pkg_dir, MetaYml))
        r == ScanLoop(pkgs, files, kwargs, scan,
                      [ map |-> EmptyMap, printed |-> << >>, propagates |-> "none" ])
    IN  [ id |-> scan, map |-> r.map, printed |-> r.printed, raised |-> r.propagates,
          pkgs |-> pkgs ]

\* The orders in which a file system may list a set of files.
Orders(S) ==
    { o \in [ 1..Cardinality(S) -> S ] : \A i, j \in 1..Cardinality(S) : o[i] = o[j] => i = j }

ListDocs ==
    { Doc(Some(S_a), None, None, FALSE, FALSE),
      Doc(Some(S_b), Some(Home_ob), None, FALSE, FALSE),
      Unparsable }

InitListing ==
    /\ fs \in FileSystems(PathPool, ListDocs, MaxFiles)
    /\ cache = EmptyMap
    /\ scans = 0
    /\ calls = << >>
    /\ NoRun

\* One call of get_package_map, not memoized yet, on one listing order.
ListScan ==
    /\ calls = << >>
    /\ \E order \in Orders(DOMAIN fs), pkg_dir \in ScanRoots :
       \E b \in { BuildIndexListed(order, fs, pkg_dir, S_s, scans + 1) } :
           /\ listed' = order
           /\ scans' = scans + 1
           /\ cache' = IF b.raised # "none" THEN cache
                       ELSE [ k \in DOMAIN cache \cup { CacheKey(pkg_dir, S_s) } |->
                                IF k = CacheKey(pkg_dir, S_s)
                                THEN [ id |-> b.id, map |-> b.map ] ELSE cache[k] ]
           /\ calls' = Append(calls, [ pkg_dir |-> pkg_dir, kwargs |-> S_s, files |-> fs,
                                        ret |-> [ id |-> b.id, map |-> b.map ],
                                        scanned |-> TRUE, printed |-> b.printed,
                                        raised |-> b.raised, pkgs |-> b.pkgs ])
    /\ UNCHANGED << fs, disk, rw, repo >>
    /\ UNCHANGED buildVars

NextListing == ListScan

SpecListing == InitListing /\ [][NextListing]_vars

\* The successfully loaded files of a call that declare alias k.
Declarers(c, k) == { p \in Loaded(c) : k \in Aliases(p, fs[p]) }

\* C20: the metadata files are processed in sorted path order, whatever the
\* order in which the file system lists them, and every alias declared by
\* more than one successfully loaded file maps to the metadata of the
\* declaring file that is last in that order.
C20_LastInSortedOrderWins ==
    \A n \in 1..Len(calls) :
        LET c == calls[n]
        IN  /\ Range(c.pkgs) = GlobMeta(fs, c.pkg_dir)
            /\ \A i, j \in 1..Len(c.pkgs) : i < j => PathLess(c.pkgs[i], c.pkgs[j])
            /\ \A p \in Loaded(c) :
                   \A k \in Aliases(p, fs[p]) :
                       Cardinality(Declarers(c, k)) > 1 =>
                           \E w \in Declarers(c, k) :
                               /\ \A q \in Declarers(c, k) \ { w } : PathLess(q, w)
                               /\ k \in DOMAIN c.ret.map
                               /\ c.ret.map[k].meta_file = w
                               /\ c.ret.map[k].meta = Render(fs[w], c.kwargs)

C20_Witness ==
    \E n \in 1..Len(calls) :
        \E p, q \in Loaded(calls[n]) :
            \E k \in Aliases(p, fs[p]) \cap Aliases(q, fs[q]) :
                /\ PathLess(p, q)
                /\ \E i, j \in 1..Len(listed) : i < j /\ listed[i] = q /\ listed[j] = p
                /\ calls[n].ret.map[k].meta_file = q
                /\ fs[p] # fs[q]

====
